---- MODULE Spec2Model ----
(***************************************************************************)
(* A model of the CMake .deb packaging pipeline: release listing and       *)
(* selection (getLatestVersionAndURLWithGitHubAPI.py), signature check,    *)
(* hash manifest parsing, safe extraction and the doBuild sequence         *)
(* (BuildDeb.py).                                                          *)
(*                                                                         *)
(* Strings the code inspects character by character (manifest text, hex    *)
(* digests) are sequences of one-character strings; strings the code only  *)
(* compares or matches against a regular expression are TLA+ strings.      *)
(* Python's None is the string "None".                                     *)
(***************************************************************************)
EXTENDS Integers, Sequences, FiniteSets, TLC

VARIABLES
    pc,             \* position of the running function
    raised,         \* name of the exception that ended the run, or "None"
    \* ---- getTargets / max(tgts)
    hdr,            \* req.headers: the three X-RateLimit-* headers
    body,           \* req.json(): "error" (a dict with "message") or "list"
    nrel,           \* number of release records consumed from t
    cur,            \* r, the release record of the current loop iteration
    tgts,           \* the targets yielded so far (list(getTargets(...)))
    selectedTarget, \* max(tgts)
    \* ---- verifyBlob
    vIn,            \* the arguments, the keyring and what gpgContext.verify does
    vOut,           \* how verifyBlob ended
    \* ---- parseHashesFile
    hashesText,     \* the manifest text given to parseHashesFile
    parseOut,       \* how parseHashesFile ended
    \* ---- unpack
    nodes,          \* the filesystem: path -> file, directory or symbolic link
    tarLen,         \* length in bytes of the uncompressed tar stream
    tarPos,         \* bytes of the tar stream read so far
    unpackedSize,   \* the number read from the last 4 bytes of the archive
    pb,             \* the progress counter: sum of pb.update(f.size)
    nent,           \* number of entries read so far
    last,           \* the entry of the current iteration and what became of it
    escapedSeen,    \* an entry resolving outside the root has been reached
    \* ---- doBuild
    archiveEtalonHash,  \* the manifest's digest for the archive, lower case
    actualFileHash,     \* the SHA-256 digest of the downloaded archive
    rootVersion,        \* the version in the name of cmakeUnpackedRoot
    ripVersion,         \* the version argument given to ripCMakePackage
    steps               \* the steps of doBuild started so far, in order

tvars == <<hdr, body, nrel, cur, tgts, selectedTarget>>
vvars == <<vIn, vOut>>
pvars == <<hashesText, parseOut>>
uvars == <<nodes, tarLen, tarPos, unpackedSize, pb, nent, last, escapedSeen>>
bvars == <<archiveEtalonHash, actualFileHash, rootVersion, ripVersion, steps>>
vars == <<pc, raised, tvars, vvars, pvars, uvars, bvars>>

None == "None"

\* The result of a function that has not run yet.
NoResult == [kind |-> "none"]

(***************************************************************************)
(* Bounds of the model.                                                    *)
(***************************************************************************)
MaxReleases == 2    \* length of the release list the API returns
MaxAssets == 4      \* assets of one release
MaxTime == 2        \* created_at / published_at are drawn from 1..MaxTime
MaxSigs == 2        \* signatures gpgContext.verify reports for one blob
MaxLen == 7         \* characters of a manifest text given to parseHashesFile
MaxEntries == 3     \* entries of an archive given to unpack
MaxTarBlocks == 6   \* 512-byte blocks of a tar stream before its end marker

(***************************************************************************)
(* getLatestVersionAndURLWithGitHubAPI.py                                  *)
(***************************************************************************)

\* A header value: missing, not a decimal number, or a number.
HeaderValues == {"absent", "malformed", "0", "1"}

\* int(h[name]): KeyError when the header is missing, ValueError when it is
\* not a number.
IntHeader(v) ==
    IF v = "absent" THEN [exc |-> "KeyError", val |-> 0]
    ELSE IF v = "malformed" THEN [exc |-> "ValueError", val |-> 0]
    ELSE [exc |-> None, val |-> IF v = "0" THEN 0 ELSE 1]

\* Lines 69-73: the three conversions in order, then the percentage
\* limitRemaining / limitTotal inside the print call.
Telemetry(h) ==
    LET rem == IntHeader(h.Remaining)
        tot == IntHeader(h.Limit)
        rst == IntHeader(h.Reset)
    IN  IF rem.exc # None THEN rem.exc
        ELSE IF tot.exc # None THEN tot.exc
        ELSE IF rst.exc # None THEN rst.exc
        ELSE IF tot.val = 0 THEN "ZeroDivisionError"
        ELSE None

TelemetryErrors == {"KeyError", "ValueError", "ZeroDivisionError"}

\* The roles doBuild asks for (the keys of downloadFileNamesRxs).
Roles == {"binary", "hashes", "hashesSig"}

AssetNames ==
    { "cmake-3.13.4-Linux-x86_64.tar.gz",
      "cmake-3.13.4-SHA-256.txt",
      "cmake-3.13.4-SHA-256.txt.asc",
      "cmake-3.13.4-SHA-256.txt.sig" }

\* downloadFileNamesRxs[role].match(nm), on the asset names above.
RxMatch(role, nm) ==
    CASE role = "binary"    -> nm = "cmake-3.13.4-Linux-x86_64.tar.gz"
      [] role = "hashes"    -> nm = "cmake-3.13.4-SHA-256.txt"
      [] role = "hashesSig" -> nm \in { "cmake-3.13.4-SHA-256.txt.asc",
                                        "cmake-3.13.4-SHA-256.txt.sig" }
      [] OTHER -> FALSE

\* The tags of the listing: one the tag pattern matches, one it does not.
TagNames == {"v3.13.4", "notes-3.13.4"}

\* tagRx.match(tag): the captured version, or None.
TagMatch(tag) ==
    CASE tag = "v3.13.4" -> "3.13.4"
      [] tag = "v3.14.0" -> "3.14.0"
      [] OTHER -> None

\* doBuild passes titleRx = None.
titleRx == None

TitleMatch(nm) == titleRx = None \/ nm = titleRx

Times == 1..MaxTime

\* The assets of a release: GitHub keeps asset names unique within a release.
AssetLists ==
    UNION { { s \in [1..n -> AssetNames] : \A i, j \in 1..n : i # j => s[i] # s[j] }
            : n \in 0..MaxAssets }

ReleaseRecords ==
    [ name : {"CMake"}, tag_name : TagNames, prerelease : {FALSE},
      created_at : Times, published_at : Times, assets : AssetLists ]

NoRelease == [name |-> None]
NoTarget == [name |-> None]

\* DownloadTargetFile(role, fc, m, uri); the asset's name stands for its
\* browser_download_url, and the asset timestamps are not modelled.
DownloadTargetFile(role, a) == [role |-> role, uri |-> a]

\* files[role] = ... : a later assignment for the same role replaces the earlier.
SetFile_mut(files, role, a) ==
    [ro \in (DOMAIN files) \cup {role} |->
        IF ro \in DOMAIN files THEN files[ro] ELSE DownloadTargetFile(role, a)]
SetFile(files, role, a) ==
    [ro \in (DOMAIN files) \cup {role} |->
        IF ro = role THEN DownloadTargetFile(role, a) ELSE files[ro]]

\* The inner loop over the roles for one asset a (lines 101-107).  Each role
\* is assigned independently of the others, so the order of the roles does
\* not matter.
RECURSIVE MatchRoles(_, _, _)
MatchRoles(files, a, roles) ==
    IF roles = {} THEN files
    ELSE LET role == CHOOSE ro \in roles : TRUE
             f2 == IF RxMatch(role, a) THEN SetFile(files, role, a) ELSE files
         IN MatchRoles(f2, a, roles \ {role})

\* The loop over r["assets"] (line 100), from asset i on.
RECURSIVE CollectFiles(_, _, _)
CollectFiles(assets, i, files) ==
    IF i > Len(assets) THEN files
    ELSE CollectFiles(assets, i + 1, MatchRoles(files, assets[i], Roles))

EmptyFiles == [ro \in {} |-> None]

\* Line 109: len(files) == len(downloadFileNamesRxs).
YieldCond_mut(files) == Cardinality(DOMAIN files) >= 1
YieldCond(files) == Cardinality(DOMAIN files) = Cardinality(Roles)

\* class DownloadTarget
DownloadTarget(nm, v, pr, c, p, files) ==
    [name |-> nm, version |-> v, prerelease |-> pr, created |-> c,
     published |-> p, files |-> files]

\* One iteration of "for r in t" (lines 82-110): the target yielded, or
\* NoTarget when the iteration ends in continue or without a yield.
ProcessRelease(r) ==
    IF ~TitleMatch(r.name) THEN NoTarget
    ELSE IF TagMatch(r.tag_name) = None THEN NoTarget
    ELSE LET files == CollectFiles(r.assets, 1, EmptyFiles)
         IN IF YieldCond(files)
            THEN DownloadTarget(r.name, TagMatch(r.tag_name), r.prerelease,
                                r.created_at, r.published_at, files)
            ELSE NoTarget

\* DownloadTarget.cmpTuple
cmpTuple_mut(tg) == <<tg.published, tg.created>>
cmpTuple(tg) == <<tg.created, tg.published>>

\* Python's comparison of two 2-tuples of timestamps.
TupleGt(a, b) == a[1] > b[1] \/ (a[1] = b[1] /\ a[2] > b[2])
TupleGe(a, b) == a = b \/ TupleGt(a, b)

\* ComparableDownloadTarget.__gt__
Gt(x, y) == TupleGt(cmpTuple(x), cmpTuple(y))

\* max(seq): the first item is kept until a later one compares greater.
RECURSIVE MaxFrom(_, _, _)
MaxFrom(seq, i, best) ==
    IF i > Len(seq) THEN best
    ELSE MaxFrom(seq, i + 1, IF Gt(seq[i], best) THEN seq[i] ELSE best)

Max(seq) == MaxFrom(seq, 2, seq[1])

(***************************************************************************)
(* BuildDeb.py: parseHashesFile                                            *)
(***************************************************************************)

\* The characters of a manifest text: two field characters, the delimiter
\* of HashesFilesDialect and the newline.
Chars == {"a", "b", " ", "\n"}

Texts == UNION { [1..n -> Chars] : n \in 0..MaxLen }

\* The lines StringIO hands to csv.reader: each ends at a newline, and the
\* characters after the last newline, if any, are a last line.
RECURSIVE SplitLines(_, _, _, _)
SplitLines(text, i, line, acc) ==
    IF i > Len(text)
    THEN IF line = <<>> THEN acc ELSE Append(acc, line)
    ELSE IF text[i] = "\n"
    THEN SplitLines(text, i + 1, <<>>, Append(acc, line))
    ELSE SplitLines(text, i + 1, Append(line, text[i]), acc)

\* csv.reader with delimiter " " and QUOTE_NONE on one line without its
\* newline: the fields between the delimiters; an empty line is the row [].
RECURSIVE SplitFields(_, _, _, _)
SplitFields(line, i, field, acc) ==
    IF i > Len(line) THEN Append(acc, field)
    ELSE IF line[i] = " "
    THEN SplitFields(line, i + 1, <<>>, Append(acc, field))
    ELSE SplitFields(line, i + 1, Append(field, line[i]), acc)

Fields(line) == IF line = <<>> THEN <<>> ELSE SplitFields(line, 1, <<>>, <<>>)

Rows(text) ==
    LET ls == SplitLines(text, 1, <<>>, <<>>)
    IN [k \in 1..Len(ls) |-> Fields(ls[k])]

\* res[key] = value on a dict kept as a function.
DictSet(res, key, value) ==
    [k \in (DOMAIN res) \cup {key} |-> IF k = key THEN value ELSE res[k]]

EmptyDict == [k \in {} |-> <<>>]

ParseReturned(res) == [kind |-> "return", res |-> res, exc |-> None]
ParseRaised(e) == [kind |-> "raise", res |-> EmptyDict, exc |-> e]

\* Lines 174-175: res[line[2]] = line[0] for every row in turn; a row with
\* fewer than three fields raises IndexError at line[2].
RECURSIVE ParseRows(_, _, _)
ParseRows(rows, k, res) ==
    IF k > Len(rows) THEN ParseReturned(res)
    ELSE IF Len(rows[k]) < 3 THEN ParseRaised("IndexError")
    ELSE ParseRows(rows, k + 1, DictSet(res, rows[k][3], rows[k][1]))

parseHashesFile(hashes) == ParseRows(Rows(hashes), 1, EmptyDict)

PIdle == hashesText = <<>> /\ parseOut = NoResult

(***************************************************************************)
(* BuildDeb.py: isSubdir and unpack                                        *)
(*                                                                         *)
(* An absolute path is the sequence of its components below "/".  A name   *)
(* in an archive or a link target is [abs, parts].  The filesystem maps    *)
(* the paths that exist to what is there.                                  *)
(***************************************************************************)

\* extrDir.resolve(): the extraction root, "/x".
extrDir == <<"x">>

Rel(parts) == [abs |-> FALSE, parts |-> parts]
Abs(parts) == [abs |-> TRUE, parts |-> parts]

Dir == [kind |-> "dir", target |-> Rel(<<>>)]
File == [kind |-> "file", target |-> Rel(<<>>)]
Link(t) == [kind |-> "link", target |-> t]

\* The directories that exist before unpack runs: "/", "/x" and "/e".
InitialNodes ==
    [p \in { <<>>, <<"x">>, <<"e">> } |-> Dir]

\* The targets of the symbolic links of an archive: "/e", "..", ".", "k",
\* a name that does not exist, and "/x/l", with which the link "l" is a loop.
LinkTargets ==
    { Abs(<<"e">>), Rel(<<"..">>), Rel(<<".">>), Rel(<<"k">>), Abs(<<"x", "l">>) }

\* Names of regular-file entries and of symbolic-link entries.
FileNames ==
    { Rel(<<"f">>), Rel(<<"d", "f">>), Rel(<<"l", "f">>), Rel(<<"..", "f">>),
      Rel(<<"d", "..", "l">>), Abs(<<"e", "f">>), Abs(<<"x", "f">>),
      Rel(<<"f", ".">>) }
LinkNames == { Rel(<<"l">>), Rel(<<"d", "l">>), Rel(<<"..", "l">>) }

\* f.size of the regular files; a symbolic link has size 0.
FileSizes == {1, 600}

Entries ==
    [name : FileNames, type : {"file"}, size : FileSizes, linkname : {Rel(<<>>)}]
      \cup
    [name : LinkNames, type : {"sym"}, size : {0}, linkname : LinkTargets]

NoEntry == [name |-> Rel(<<>>), type |-> None, size |-> 0, linkname |-> Rel(<<>>)]

\* The tar format: a 512-byte header per entry, the data padded to whole
\* blocks, and two zero blocks at the end; further zero blocks may follow.
BlockSize == 512
DataBlocks(size) == (size + BlockSize - 1) \div BlockSize
EntryLen(f) == BlockSize * (1 + DataBlocks(f.size))
EndMarkerLen == 2 * BlockSize

\* gzip stores the length of the uncompressed stream modulo 2^32 in the last
\* 4 bytes; the stream is a whole number of blocks (2^32 = 2^23 * 512).
TwoPow23 == 8388608
Trailer(len) == ((len \div BlockSize) % TwoPow23) * BlockSize

\* extrDir / f.name: pathlib drops the "." components of a path and keeps
\* the ".." ones; an absolute name replaces the base.
JoinPath(base, name) ==
    (IF name.abs THEN <<>> ELSE base) \o SelectSeq(name.parts, LAMBDA c : c # ".")

Parent(path) == IF path = <<>> THEN <<>> ELSE SubSeq(path, 1, Len(path) - 1)

IsLink(fs, path) == path \in DOMAIN fs /\ fs[path].kind = "link"

\* The operating system's lookup of a path, one component at a time from
\* the directory dir: "." stays, ".." goes to the parent of the directory
\* reached, a symbolic link is read and followed from the directory it is in
\* (the last component only when follow holds).  Going through a name that
\* does not exist is ENOENT, through a plain file ENOTDIR; coming back to a
\* link that is being followed (open) is a loop of links, ELOOP, which
\* Python raises as a plain OSError.  The place found need not exist.
Found(at) == [err |-> None, at |-> at]
Failed(e) == [err |-> e, at |-> <<>>]

RECURSIVE Walk(_, _, _, _, _)
Walk(dir, rest, fs, follow, open) ==
    IF rest = <<>> THEN Found(dir)
    ELSE IF dir \notin DOMAIN fs THEN Failed("FileNotFoundError")
    ELSE IF fs[dir].kind # "dir" THEN Failed("NotADirectoryError")
    ELSE LET c == Head(rest)
             np == Append(dir, c)
         IN IF c = "." THEN Walk(dir, Tail(rest), fs, follow, open)
            ELSE IF c = ".." THEN Walk(Parent(dir), Tail(rest), fs, follow, open)
            ELSE IF IsLink(fs, np) /\ (Tail(rest) # <<>> \/ follow)
            THEN IF np \in open THEN Failed("OSError")
                 ELSE LET t == fs[np].target
                          r == Walk(IF t.abs THEN <<>> ELSE dir, t.parts, fs, TRUE,
                                    open \cup {np})
                      IN IF r.err # None THEN r
                         ELSE Walk(r.at, Tail(rest), fs, follow, open)
            ELSE Walk(np, Tail(rest), fs, follow, open)

\* os.stat and os.lstat.
Stat(fs, fp) == Walk(<<>>, fp, fs, TRUE, {})
Lstat(fs, fp) == Walk(<<>>, fp, fs, FALSE, {})

\* os.path.normpath on the parts of a name: "." is dropped and ".." takes
\* the part before it away; at the front of a relative name ".." stays.
RECURSIVE NormParts(_, _, _)
NormParts(parts, abs, acc) ==
    IF parts = <<>> THEN acc
    ELSE LET c == Head(parts)
         IN IF c = "." THEN NormParts(Tail(parts), abs, acc)
            ELSE IF c = ".."
            THEN IF acc # <<>> /\ acc[Len(acc)] # ".."
                 THEN NormParts(Tail(parts), abs, Parent(acc))
                 ELSE IF abs THEN NormParts(Tail(parts), abs, acc)
                 ELSE NormParts(Tail(parts), abs, Append(acc, c))
            ELSE NormParts(Tail(parts), abs, Append(acc, c))

\* os.path.realpath, not strict (posixpath._joinrealpath): the components
\* in turn, ".." dropping the last resolved component, a symbolic link
\* replaced by its resolved target, a name that does not exist kept as it
\* is.  Coming back to a link that is being resolved (open) ends the
\* resolution: the link and the components not yet read are returned as
\* they are, with ok false.
RECURSIVE Realpath(_, _, _, _)
Realpath(done, rest, fs, open) ==
    IF rest = <<>> THEN [ok |-> TRUE, path |-> done]
    ELSE LET c == Head(rest)
             np == Append(done, c)
         IN IF c = "." THEN Realpath(done, Tail(rest), fs, open)
            ELSE IF c = ".." THEN Realpath(Parent(done), Tail(rest), fs, open)
            ELSE IF ~IsLink(fs, np) THEN Realpath(np, Tail(rest), fs, open)
            ELSE IF np \in open THEN [ok |-> FALSE, path |-> np \o Tail(rest)]
            ELSE LET t == fs[np].target
                     r == Realpath(IF t.abs THEN <<>> ELSE done, t.parts, fs,
                                   open \cup {np})
                 IN IF ~r.ok THEN [ok |-> FALSE, path |-> r.path \o Tail(rest)]
                    ELSE Realpath(r.path, Tail(rest), fs, open)

\* Path.resolve(): realpath, made absolute and normalised by abspath; then
\* stat() on the result, and ELOOP there is RuntimeError("Symlink loop").
Resolve(path, fs) ==
    LET p == NormParts(Realpath(<<>>, path, fs, {}).path, TRUE, <<>>)
    IN  [path |-> p, err |-> IF Stat(fs, p).err = "OSError" THEN "RuntimeError" ELSE None]

IsPrefix(p, q) == Len(p) <= Len(q) /\ SubSeq(q, 1, Len(p)) = p

\* isSubdir(parent, child) on the two resolved paths: a symlink loop met by
\* resolve() is RuntimeError; relative_to raises ValueError when the
\* resolved child is not below the resolved parent; otherwise the parts of
\* the relative path are searched for "..".
SubdirOf_mut(rp, rc) ==
    IF rp.err # None \/ rc.err # None THEN "RuntimeError"
    ELSE IF ~IsPrefix(rp.path, rc.path) THEN "False"
    ELSE "True"
SubdirOf(rp, rc) ==
    IF rp.err # None \/ rc.err # None THEN "RuntimeError"
    ELSE IF ~IsPrefix(rp.path, rc.path) THEN "ValueError"
    ELSE IF \E k \in (Len(rp.path) + 1)..Len(rc.path) : rc.path[k] = ".." THEN "False"
    ELSE "True"

isSubdir_mut(parent, child, fs) == SubdirOf_mut(Resolve(parent, fs), Resolve(child, fs))
isSubdir(parent, child, fs) == SubdirOf(Resolve(parent, fs), Resolve(child, fs))

Remove(fs, path) == [p \in (DOMAIN fs) \ {path} |-> fs[p]]
Put(fs, path, node) == [p \in (DOMAIN fs) \cup {path} |-> IF p = path THEN node ELSE fs[p]]

\* fp.is_file() and fp.is_dir() follow symbolic links, fp.is_symlink() does
\* not; a failed lookup is False.
IsFile(fs, fp) ==
    LET r == Stat(fs, fp) IN r.err = None /\ r.at \in DOMAIN fs /\ fs[r.at].kind = "file"
IsDir(fs, fp) ==
    LET r == Stat(fs, fp) IN r.err = None /\ r.at \in DOMAIN fs /\ fs[r.at].kind = "dir"
IsSymlink(fs, fp) ==
    LET r == Lstat(fs, fp) IN r.err = None /\ IsLink(fs, r.at)

\* Lines 157-158: a plain file or symbolic link at the destination is removed.
Unlinked(fs, fp) ==
    IF IsFile(fs, fp) \/ IsSymlink(fs, fp)
    THEN Remove(fs, Lstat(fs, fp).at)
    ELSE fs

\* Line 159, Path.mkdir(parents, exist_ok=True): os.mkdir; on ENOENT, when
\* parents holds, the parent is made first and os.mkdir is tried once more;
\* on another OSError (the name exists, or a plain file is on the way) the
\* error is raised unless the path is a directory.
RECURSIVE Mkdirs(_, _, _)
Mkdirs(fs, path, parents) ==
    LET l == Lstat(fs, path)
        e == IF l.err # None THEN l.err
             ELSE IF l.at \in DOMAIN fs THEN "FileExistsError" ELSE None
    IN  IF e = None THEN [err |-> None, fs |-> Put(fs, l.at, Dir)]
        ELSE IF e = "FileNotFoundError"
        THEN IF ~parents \/ path = <<>> THEN [err |-> e, fs |-> fs]
             ELSE LET m == Mkdirs(fs, Parent(path), TRUE)
                  IN IF m.err # None THEN m ELSE Mkdirs(m.fs, path, FALSE)
        ELSE IF IsDir(fs, path) THEN [err |-> None, fs |-> fs]
        ELSE [err |-> e, fs |-> fs]

\* os.path.normpath on a name written as its leading slashes and its parts.
Normpath(n) == [root |-> n.root, parts |-> NormParts(n.parts, n.root # "", <<>>)]

\* The name of a member as the archive gives it.
Written(name) == [root |-> IF name.abs THEN "/" ELSE "", parts |-> name.parts]

\* tarfile's _find_link_target for a symbolic link f: the link's target
\* joined by "/" to os.path.dirname of the link's name when that is not
\* empty (the directory of "/l" is "/", and a relative target joined to it
\* begins with "//", which normpath keeps), looked up by its normalised name
\* among all the members of the archive, the last one first; 0 when there
\* is none.
LinkTargetName(f) ==
    LET dir == Parent(f.name.parts)
        t == f.linkname
    IN  IF ~f.name.abs /\ Len(f.name.parts) <= 1 THEN Written(t)
        ELSE [root |-> IF ~f.name.abs THEN ""
                       ELSE IF dir = <<>> /\ ~t.abs /\ t.parts # <<>> THEN "//"
                       ELSE "/",
              parts |-> dir \o t.parts]

FindLinkTarget(archive, f) ==
    LET hits == { k \in 1..Len(archive) :
                     Normpath(Written(archive[k].name)) = Normpath(LinkTargetName(f)) }
    IN  IF hits = {} THEN 0 ELSE CHOOSE k \in hits : \A j \in hits : j <= k

\* tarfile's makelink when the link cannot be made because a directory is
\* at the destination: the member found as the link's target is extracted
\* there instead.  A regular file cannot be opened there, which is the
\* error e; a symbolic link falls back in turn; no member found is
\* ExtractError, which extract at its default errorlevel only logs
\* ("nonfatal").
RECURSIVE LinkFallback(_, _, _, _)
LinkFallback(archive, f, fuel, e) ==
    LET k == FindLinkTarget(archive, f)
    IN  IF k = 0 THEN "nonfatal"
        ELSE IF archive[k].type # "sym" THEN e
        ELSE IF fuel = 0 THEN "RecursionError"
        ELSE LinkFallback(archive, archive[k], fuel - 1, e)

\* os.path.exists: os.stat succeeds.
Exists(fs, path) ==
    LET r == Stat(fs, path) IN r.err = None /\ r.at \in DOMAIN fs

\* os.mkdir: the directory is made where the path leads without following
\* a last symbolic link; FileExistsError when something is there.
OsMkdir(fs, path) ==
    LET l == Lstat(fs, path)
    IN  IF l.err # None THEN [err |-> l.err, fs |-> fs]
        ELSE IF l.at \in DOMAIN fs THEN [err |-> "FileExistsError", fs |-> fs]
        ELSE [err |-> None, fs |-> Put(fs, l.at, Dir)]

\* os.makedirs(name): when the directory of name does not exist it is made
\* first, FileExistsError from that passed over, and a name ending in "."
\* is done with it; then os.mkdir(name), whose error is raised.
RECURSIVE Makedirs(_, _)
Makedirs(fs, name) ==
    IF name # <<>> /\ ~Exists(fs, Parent(name))
    THEN LET m == Makedirs(fs, Parent(name))
         IN IF m.err \notin {None, "FileExistsError"} THEN m
            ELSE IF name[Len(name)] = "." THEN [err |-> None, fs |-> m.fs]
            ELSE OsMkdir(m.fs, name)
    ELSE OsMkdir(fs, name)

\* os.path.join(path, tarinfo.name), the path tarfile extracts a member to:
\* the name as the archive gives it, "." components kept.
TargetPath(base, name) == IF name.abs THEN name.parts ELSE base \o name.parts

\* tarfile's _extract_member begins by making the directory of the target
\* path with os.makedirs when it does not exist.
UpperDirs(fs, targetpath) ==
    IF targetpath # <<>> /\ ~Exists(fs, Parent(targetpath))
    THEN Makedirs(fs, Parent(targetpath))
    ELSE [err |-> None, fs |-> fs]

\* tarfile's _extract_member after the upper directories, u being what
\* making them gave: the member f of archive is made at the target path.  A
\* regular file is opened for writing there, through a symbolic link if one
\* is there.  For a symbolic link what is at the destination is unlinked and
\* the link made, with LinkFallback when that fails: the path does not lead
\* anywhere, or leads to a directory.
ExtractMember(u, f, targetpath, archive) ==
    IF u.err # None THEN [err |-> u.err, fs |-> u.fs, loc |-> <<>>]
    ELSE IF f.type = "sym"
    THEN LET l == Lstat(u.fs, targetpath)
         IN IF l.err # None \/ (l.at \in DOMAIN u.fs /\ u.fs[l.at].kind = "dir")
            THEN [err |-> LinkFallback(archive, f, Len(archive),
                                       IF l.err # None THEN l.err ELSE "IsADirectoryError"),
                  fs |-> u.fs, loc |-> <<>>]
            ELSE [err |-> None, fs |-> Put(u.fs, l.at, Link(f.linkname)), loc |-> l.at]
    ELSE LET r == Stat(u.fs, targetpath)
         IN IF r.err # None THEN [err |-> r.err, fs |-> u.fs, loc |-> <<>>]
            ELSE IF r.at \in DOMAIN u.fs /\ u.fs[r.at].kind = "dir"
            THEN [err |-> "IsADirectoryError", fs |-> u.fs, loc |-> <<>>]
            ELSE [err |-> None, fs |-> Put(u.fs, r.at, File), loc |-> r.at]

\* arch.extract(f, extrDir) for a member f of archive, targetpath being
\* TargetPath(extrDir, f.name): the upper directories, then the member.  A
\* failure to make either is an OSError that extract raises.
Extracted(fs, f, targetpath, archive) ==
    ExtractMember(UpperDirs(fs, targetpath), f, targetpath, archive)

NoLoc == <<"None">>

\* The body of the loop of unpack for entry f (lines 155-162): what happened
\* ("extracted", "skipped", "ignored" for a link tarfile could not make, or
\* the exception raised), the filesystem after it, the place written and the
\* bytes added to the progress counter.  Line 161, fp.relative_to(extrDir),
\* compares the parts of the two paths as they are written.  fp is the
\* path pathlib makes of the name, without its "." components; tarfile
\* joins extrDir and the name itself.  archive is the archive f is a
\* member of.
UnpackEntry(fs, f, archive) ==
    LET fp == JoinPath(extrDir, f.name)
        sub == isSubdir(extrDir, fp, fs)
    IN  IF sub \in {"ValueError", "RuntimeError"}
        THEN [outcome |-> sub, fs |-> fs, loc |-> NoLoc, bytes |-> 0]
        ELSE IF sub = "False"
        THEN [outcome |-> "skipped", fs |-> fs, loc |-> NoLoc, bytes |-> 0]
        ELSE LET fs1 == Unlinked(fs, fp)
                 m == Mkdirs(fs1, Parent(fp), TRUE)
                 x == Extracted(m.fs, f, TargetPath(extrDir, f.name), archive)
             IN IF m.err # None
                THEN [outcome |-> m.err, fs |-> m.fs, loc |-> NoLoc, bytes |-> 0]
                ELSE IF x.err = "nonfatal"
                THEN IF IsPrefix(extrDir, fp)
                     THEN [outcome |-> "ignored", fs |-> x.fs, loc |-> NoLoc, bytes |-> f.size]
                     ELSE [outcome |-> "ValueError", fs |-> x.fs, loc |-> NoLoc, bytes |-> 0]
                ELSE IF x.err # None
                THEN [outcome |-> x.err, fs |-> x.fs, loc |-> NoLoc, bytes |-> 0]
                ELSE IF IsPrefix(extrDir, fp)
                THEN [outcome |-> "extracted", fs |-> x.fs, loc |-> x.loc, bytes |-> f.size]
                ELSE [outcome |-> "ValueError", fs |-> x.fs, loc |-> x.loc, bytes |-> 0]

NoLast ==
    [f |-> NoEntry, escaped |-> FALSE, looped |-> FALSE, outcome |-> None, loc |-> NoLoc]

UIdle ==
    /\ nodes = InitialNodes /\ tarLen = 0 /\ tarPos = 0 /\ unpackedSize = 0
    /\ pb = 0 /\ nent = 0 /\ last = NoLast /\ escapedSeen = FALSE

BIdle ==
    /\ archiveEtalonHash = <<>> /\ actualFileHash = <<>>
    /\ rootVersion = None /\ ripVersion = None /\ steps = <<>>

(***************************************************************************)
(* BuildDeb.py: verifyBlob                                                 *)
(***************************************************************************)

\* Fingerprints as gpg reports them (upper case) and as a caller may write
\* them (lower case).
Fingerprints == {"A1", "B2", "C3"}
Upper(fp) ==
    CASE fp = "a1" -> "A1"
      [] fp = "b2" -> "B2"
      [] fp = "c3" -> "C3"
      [] OTHER -> fp

\* Keys of the local keyring: the primary fingerprint and the fingerprints
\* of key.subkeys (gpg lists the primary key among them).
KeyA == [fpr |-> "A1", subkeys |-> {"A1", "B2"}]
KeyC == [fpr |-> "C3", subkeys |-> {"C3"}]
Keyrings == { {}, {KeyA}, {KeyA, KeyC} }

\* The None that findKeyByFingerprint returns when no key matches.
NoKey == [fpr |-> None]

\* findKeyByFingerprint: the key with that fingerprint, or None.
findKeyByFingerprint(keyring, fp) ==
    IF \E k \in keyring : k.fpr = fp
    THEN CHOOSE k \in keyring : k.fpr = fp
    ELSE NoKey

\* Lines 226-232: allowedFingerprints, once the key (if asked for) is found.
AllowedFingerprints_mut(keyFingerprint, subkeyFingerprint, key) ==
    IF keyFingerprint # None THEN key.subkeys
    ELSE IF subkeyFingerprint # None THEN {subkeyFingerprint}
    ELSE {}
AllowedFingerprints(keyFingerprint, subkeyFingerprint, key) ==
    IF keyFingerprint # None THEN key.subkeys
    ELSE IF subkeyFingerprint # None THEN {Upper(subkeyFingerprint)}
    ELSE {}

\* Lines 236-239: the first signature whose fingerprint is allowed.
AnyAllowed(sigs, allowed) == \E i \in 1..Len(sigs) : sigs[i] \in allowed

Returned(v) == [kind |-> "return", value |-> v, exc |-> None, listed |-> <<>>]
Raised(e, l) == [kind |-> "raise", value |-> None, exc |-> e, listed |-> l]

\* verifyBlob.  gpgres is what gpgContext.verify(signedData, signature) does:
\* <<"raise">> when it raises, else <<"sigs", l>> with l the fingerprints of
\* res.signatures in order.
verifyBlob(keyFingerprint, subkeyFingerprint, keyring, gpgres) ==
    LET key == IF keyFingerprint # None
               THEN findKeyByFingerprint(keyring, Upper(keyFingerprint))
               ELSE NoKey
    IN  IF keyFingerprint # None /\ key = NoKey
        THEN Raised("AttributeError", <<>>)      \* None.subkeys
        ELSE IF gpgres[1] = "raise"
        THEN Raised("GPGMEError", <<>>)
        ELSE IF AnyAllowed(gpgres[2], AllowedFingerprints(keyFingerprint, subkeyFingerprint, key))
        THEN Returned(TRUE)
        ELSE Raised("Exception", gpgres[2])      \* "Wrong public keys used: ..."


SigLists == UNION { [1..n -> Fingerprints] : n \in 0..MaxSigs }

GpgResults == { <<"raise">> } \cup { <<"sigs", l>> : l \in SigLists }

VerifyInputs ==
    [ keyFingerprint : {None, "a1", "A1", "C3"},
      subkeyFingerprint : {None, "b2", "C3"},
      keyring : Keyrings,
      gpg : GpgResults ]

VIdle == vIn = None /\ vOut = NoResult
TIdle ==
    /\ hdr = None /\ body = None /\ nrel = 0 /\ cur = NoRelease
    /\ tgts = <<>> /\ selectedTarget = NoTarget

VInit ==
    /\ pc = "verifyBlob"
    /\ raised = None
    /\ vIn \in VerifyInputs
    /\ vOut = NoResult
    /\ TIdle
    /\ PIdle
    /\ UIdle
    /\ BIdle

V_Verify ==
    /\ pc = "verifyBlob"
    /\ vOut' = verifyBlob(vIn.keyFingerprint, vIn.subkeyFingerprint,
                          vIn.keyring, vIn.gpg)
    /\ pc' = IF vOut'.kind = "return" THEN "returned" ELSE "raised"
    /\ raised' = vOut'.exc
    /\ UNCHANGED <<vIn, tvars, pvars, uvars, bvars>>

VNext == V_Verify

SpecVerify == VInit /\ [][VNext]_vars

(***************************************************************************)
(* BuildDeb.py: doBuild                                                    *)
(***************************************************************************)

\* str.lower() on the characters of a digest.
LowerChar(c) == CASE c = "A" -> "a" [] c = "B" -> "b" [] OTHER -> c
Lower(str) == [k \in 1..Len(str) |-> LowerChar(str[k])]

\* Line 291: actualFileHash.lower() != archiveEtalonHash is the failure.
HashMatch_mut(actual, etalon) == Len(actual) = Len(etalon)
HashMatch(actual, etalon) == Lower(actual) = etalon

\* Line 213, in the fingerprints of the model.
signingKeyFingerprint == "A1"

\* PurePath(uri).name, in the characters of the manifest texts: "t" stands
\* for the name of the binary archive.
ArchiveFileName(uri) ==
    IF uri = "cmake-3.13.4-Linux-x86_64.tar.gz" THEN <<"t">> ELSE <<"u">>

\* getTargets run to its end by list(): the exception raised, or the list
\* of the targets yielded for the release list t.
RECURSIVE ListTargets(_, _, _)
ListTargets(t, i, acc) ==
    IF i > Len(t) THEN acc
    ELSE LET tg == ProcessRelease(t[i])
         IN ListTargets(t, i + 1, IF tg # NoTarget THEN Append(acc, tg) ELSE acc)

getTargets(h, b, t) ==
    IF Telemetry(h) # None THEN [exc |-> Telemetry(h), tgts |-> <<>>]
    ELSE IF b = "error" THEN [exc |-> "Exception", tgts |-> <<>>]
    ELSE [exc |-> None, tgts |-> ListTargets(t, 1, <<>>)]

\* Where f's destination resolves to: "loop" when it does not resolve for
\* a loop of symbolic links, "outside" when it resolves to a place that is
\* not below the resolved extraction root, "below" otherwise.
Reaches(fs, f) ==
    LET rp == Resolve(extrDir, fs)
        rc == Resolve(JoinPath(extrDir, f.name), fs)
    IN  IF rp.err # None \/ rc.err # None THEN "loop"
        ELSE IF ~IsPrefix(rp.path, rc.path) THEN "outside"
        ELSE "below"
Escapes(fs, f) == Reaches(fs, f) = "outside"

\* The loop of unpack goes on after these outcomes of an entry.
Continues(outcome) == outcome \in {"extracted", "skipped", "ignored"}

\* The state of a run of unpack after entry f, met in state st, had the
\* result u: the progress counter, the entries read, the position in the
\* tar stream and what happened to the entry.
AfterEntry(st, f, u, reach) ==
    [outcome |-> u.outcome, fs |-> u.fs, pb |-> st.pb + u.bytes,
     nent |-> st.nent + 1, tarPos |-> st.tarPos + EntryLen(f),
     last |-> [f |-> f, escaped |-> reach = "outside", looped |-> reach = "loop",
               outcome |-> u.outcome, loc |-> u.loc],
     escapedSeen |-> (st.escapedSeen \/ reach = "outside")]

\* unpack run on the entries of an archive from entry i on: the exception
\* raised or "done", and the state the run ends in.
RECURSIVE UnpackFrom(_, _, _)
RECURSIVE UnpackOn(_, _, _)
UnpackFrom(archive, i, st) ==
    IF i > Len(archive) THEN [st EXCEPT !.outcome = "done"]
    ELSE UnpackOn(archive, i,
                  AfterEntry(st, archive[i], UnpackEntry(st.fs, archive[i], archive),
                             Reaches(st.fs, archive[i])))
UnpackOn(archive, i, nx) ==
    IF Continues(nx.outcome) THEN UnpackFrom(archive, i + 1, nx) ELSE nx

unpack(archive) ==
    UnpackFrom(archive, 1,
               [outcome |-> None, fs |-> InitialNodes, pb |-> 0, nent |-> 0,
                tarPos |-> 0, last |-> NoLast, escapedSeen |-> FALSE])

\* The length of the tar stream of an archive without padding after the
\* end marker.
RECURSIVE ArchiveLen(_)
ArchiveLen(archive) ==
    IF archive = <<>> THEN EndMarkerLen
    ELSE EntryLen(Head(archive)) + ArchiveLen(Tail(archive))

\* Path.iterdir(): the error of the listing, or the entries of the
\* directory found at path.
IterDir(fs, path) ==
    LET r == Stat(fs, path)
    IN  IF r.err # None THEN [err |-> r.err, entries |-> {}]
        ELSE IF r.at \notin DOMAIN fs THEN [err |-> "FileNotFoundError", entries |-> {}]
        ELSE IF fs[r.at].kind # "dir" THEN [err |-> "NotADirectoryError", entries |-> {}]
        ELSE [err |-> None,
              entries |-> { q \in DOMAIN fs : Len(q) = Len(r.at) + 1 /\ Parent(q) = r.at }]

\* Line 208.
platformMarker == "Linux-x86_64"

\* Line 214, candidateDirRx.match(name), on the names of the model.
candidateDirRx(name) == name \in {"cmake-3.13", "cmake-3.14"}

\* Line 296: unpackDir / ('cmake-' + version + '-' + platformMarker).
cmakeUnpackedRoot(version) ==
    Append(extrDir, "cmake-" \o version \o "-" \o platformMarker)

\* Lines 242-250: the entries of share/ that are directories with a name
\* candidateDirRx matches; the first one the listing gives is returned, and
\* None when there is none.
findCMakeDataDir(fs, root) ==
    LET d == IterDir(fs, Append(root, "share"))
    IN  [err |-> d.err,
         dirs |-> { q \in d.entries : IsDir(fs, q) /\ candidateDirRx(q[Len(q)]) }]

\* Lines 87-132 as far as src/ shows: Package, rip and copy are pydebhelper's;
\* line 114 lists unpackedDir / "man/man7" for the entry (None, 7) of the
\* first package of config.
ripCMakePackage(fs, unpackedDir) ==
    IterDir(fs, unpackedDir \o <<"man", "man7">>).err

\* ---- the inputs of a run of doBuild
GoodHeaders == [Remaining |-> "1", Limit |-> "1", Reset |-> "1"]
BuildHeaders == { GoodHeaders, [Remaining |-> "absent", Limit |-> "1", Reset |-> "1"] }

CompleteAssets ==
    << "cmake-3.13.4-Linux-x86_64.tar.gz", "cmake-3.13.4-SHA-256.txt",
       "cmake-3.13.4-SHA-256.txt.asc" >>
PartialAssets == << "cmake-3.13.4-Linux-x86_64.tar.gz", "cmake-3.13.4-SHA-256.txt" >>

BuildReleases ==
    [ name : {"CMake"}, tag_name : {"v3.13.4", "v3.14.0"}, prerelease : {FALSE},
      created_at : Times, published_at : {1},
      assets : {CompleteAssets, PartialAssets} ]

BuildResponses == UNION { [1..n -> BuildReleases] : n \in 0..MaxReleases }

\* Manifest texts: the archive's entry with digest "ab", the same in upper
\* case, another digest, an entry for another file only, a line of two
\* fields, and the empty text.
BuildManifests ==
    { <<"a", "b", " ", "s", " ", "t", "\n">>,
      <<"A", "B", " ", "s", " ", "t", "\n">>,
      <<"b", "b", " ", "s", " ", "t", "\n">>,
      <<"a", "b", " ", "s", " ", "u", "\n">>,
      <<"a", "b", " ", "s", "\n">>,
      <<>> }

BuildDigests == { <<"a", "b">>, <<"A", "B">>, <<"b", "b">> }

BuildGpg == { <<"raise">>, <<"sigs", <<"B2">>>>, <<"sigs", <<"C3">>>> }
BuildKeyrings == { {}, {KeyA, KeyC} }

\* A regular file of an archive of a build.
BuildFile(parts, size) ==
    [name |-> Rel(parts), type |-> "file", size |-> size, linkname |-> Rel(<<>>)]

\* The archives of a build: empty; share/ without a data directory; a data
\* directory without man/man7; a file in the place of the data directory;
\* the whole tree, for each version; an entry above the root; an entry below
\* a symbolic link that leaves the root; an entry below a loop of links.
BuildArchives ==
    { <<>>,
      << BuildFile(<<"cmake-3.13.4-Linux-x86_64", "share", "aclocal", "f">>, 600) >>,
      << BuildFile(<<"cmake-3.13.4-Linux-x86_64", "share", "cmake-3.13", "f">>, 1) >>,
      << BuildFile(<<"cmake-3.13.4-Linux-x86_64", "share", "cmake-3.13">>, 1) >>,
      << BuildFile(<<"cmake-3.13.4-Linux-x86_64", "share", "cmake-3.13", "f">>, 1),
         BuildFile(<<"cmake-3.13.4-Linux-x86_64", "man", "man7", "f">>, 1) >>,
      << BuildFile(<<"cmake-3.14.0-Linux-x86_64", "share", "cmake-3.14", "f">>, 1),
         BuildFile(<<"cmake-3.14.0-Linux-x86_64", "man", "man7", "f">>, 1) >>,
      << BuildFile(<<"..", "f">>, 1) >>,
      << [name |-> Rel(<<"l">>), type |-> "sym", size |-> 0, linkname |-> Abs(<<"e">>)],
         BuildFile(<<"l", "f">>, 1) >>,
      << [name |-> Rel(<<"l">>), type |-> "sym", size |-> 0, linkname |-> Abs(<<"x", "l">>)],
         BuildFile(<<"l", "f">>, 1) >> }

\* The lengths of a tar stream: the end marker after whole blocks.
TarLens == { EndMarkerLen + BlockSize * k : k \in 0..MaxTarBlocks }

BInit ==
    /\ pc = "doBuild"
    /\ raised = None
    /\ TIdle
    /\ VIdle
    /\ PIdle
    /\ UIdle
    /\ BIdle

Fail(e) == pc' = "raised" /\ raised' = e
Goto(l) == pc' = l /\ raised' = raised
Step(name) == steps' = Append(steps, name)

\* Lines 263-267: tgts = list(getTargets(...)).
B_GetTargets ==
    /\ pc = "doBuild"
    /\ \E h \in BuildHeaders, b \in {"error", "list"}, t \in BuildResponses :
          LET g == getTargets(h, b, t)
          IN /\ hdr' = h
             /\ body' = b
             /\ tgts' = g.tgts
             /\ nrel' = IF g.exc = None THEN Len(t) ELSE 0
             /\ IF g.exc = None THEN Goto("max") ELSE Fail(g.exc)
    /\ Step("getTargets")
    /\ UNCHANGED <<cur, selectedTarget, vvars, pvars, uvars>>
    /\ UNCHANGED <<archiveEtalonHash, actualFileHash, rootVersion, ripVersion>>

\* Line 269: selectedTarget = max(tgts).
B_Max ==
    /\ pc = "max"
    /\ steps # <<>>
    /\ IF tgts = <<>>
       THEN Fail("ValueError") /\ selectedTarget' = selectedTarget
       ELSE Goto("fetch") /\ selectedTarget' = Max(tgts)
    /\ Step("max")
    /\ UNCHANGED <<hdr, body, nrel, cur, tgts, vvars, pvars, uvars>>
    /\ UNCHANGED <<archiveEtalonHash, actualFileHash, rootVersion, ripVersion>>

\* Lines 275-276: the manifest and its signature are downloaded.
B_Fetch ==
    /\ pc = "fetch"
    /\ \E text \in BuildManifests, g \in BuildGpg, kr \in BuildKeyrings :
          /\ hashesText' = text
          /\ vIn' = [keyFingerprint |-> signingKeyFingerprint,
                     subkeyFingerprint |-> None, keyring |-> kr, gpg |-> g]
    /\ Goto("verify")
    /\ Step("fetch")
    /\ UNCHANGED <<tvars, vOut, parseOut, uvars>>
    /\ UNCHANGED <<archiveEtalonHash, actualFileHash, rootVersion, ripVersion>>

\* Line 278: verifyBlob(hashesRaw, hashesSigRaw, keyFingerprint=...).
B_Verify ==
    /\ pc = "verify"
    /\ vOut' = verifyBlob(vIn.keyFingerprint, vIn.subkeyFingerprint,
                          vIn.keyring, vIn.gpg)
    /\ IF vOut'.kind = "return" THEN Goto("parse") ELSE Fail(vOut'.exc)
    /\ Step("verifyBlob")
    /\ UNCHANGED <<tvars, vIn, pvars, uvars>>
    /\ UNCHANGED <<archiveEtalonHash, actualFileHash, rootVersion, ripVersion>>

\* Line 280: hashes = parseHashesFile(hashesRaw.decode("utf-8")).
B_Parse ==
    /\ pc = "parse"
    /\ parseOut' = parseHashesFile(hashesText)
    /\ IF parseOut'.kind = "return" THEN Goto("lookup") ELSE Fail(parseOut'.exc)
    /\ Step("parseHashesFile")
    /\ UNCHANGED <<tvars, vvars, hashesText, uvars>>
    /\ UNCHANGED <<archiveEtalonHash, actualFileHash, rootVersion, ripVersion>>

\* Lines 281-282: archiveEtalonHash = hashes[archiveFileName].lower().
B_Lookup ==
    /\ pc = "lookup"
    /\ LET nm == ArchiveFileName(selectedTarget.files["binary"].uri)
       IN IF nm \in DOMAIN parseOut.res
          THEN Goto("download") /\ archiveEtalonHash' = Lower(parseOut.res[nm])
          ELSE Fail("KeyError") /\ archiveEtalonHash' = archiveEtalonHash
    /\ Step("lookup")
    /\ UNCHANGED <<tvars, vvars, pvars, uvars>>
    /\ UNCHANGED <<actualFileHash, rootVersion, ripVersion>>

\* Lines 284-290: the archive is downloaded (aria2c may fail) and hashed.
B_Download ==
    /\ pc = "download"
    /\ \/ Fail("ErrorReturnCode") /\ actualFileHash' = actualFileHash
       \/ \E d \in BuildDigests : Goto("hashcheck") /\ actualFileHash' = d
    /\ Step("download")
    /\ UNCHANGED <<tvars, vvars, pvars, uvars>>
    /\ UNCHANGED <<archiveEtalonHash, rootVersion, ripVersion>>

\* Lines 291-292: the comparison of the two digests.
B_HashCheck ==
    /\ pc = "hashcheck"
    /\ IF HashMatch(actualFileHash, archiveEtalonHash)
       THEN Goto("unpack")
       ELSE Fail("Exception")
    /\ Step("hashcheck")
    /\ UNCHANGED <<tvars, vvars, pvars, uvars>>
    /\ UNCHANGED <<archiveEtalonHash, actualFileHash, rootVersion, ripVersion>>

\* Line 294: unpack(archPath, unpackDir) on the downloaded archive.
B_Unpack ==
    /\ pc = "unpack"
    /\ steps # <<>>
    /\ \E a \in BuildArchives, len \in TarLens :
          /\ ArchiveLen(a) <= len
          /\ LET u == unpack(a)
             IN /\ tarLen' = len
                /\ unpackedSize' = Trailer(len)
                /\ nodes' = u.fs
                /\ pb' = u.pb
                /\ nent' = u.nent
                /\ tarPos' = u.tarPos
                /\ last' = u.last
                /\ escapedSeen' = u.escapedSeen
                /\ IF u.outcome = "done" THEN Goto("datadir") ELSE Fail(u.outcome)
    /\ Step("unpack")
    /\ UNCHANGED <<tvars, vvars, pvars>>
    /\ UNCHANGED <<archiveEtalonHash, actualFileHash, rootVersion, ripVersion>>

\* Lines 296-299: the unpacked root is named after selectedTarget.version;
\* findCMakeDataDir lists its share/ directory, and None.relative_to is an
\* AttributeError when no data directory was found.
B_DataDir ==
    /\ pc = "datadir"
    /\ rootVersion' = selectedTarget.version
    /\ LET r == findCMakeDataDir(nodes, cmakeUnpackedRoot(selectedTarget.version))
       IN IF r.err # None THEN Fail(r.err)
          ELSE IF r.dirs = {} THEN Fail("AttributeError")
          ELSE Goto("rip")
    /\ Step("findCMakeDataDir")
    /\ UNCHANGED <<tvars, vvars, pvars, uvars>>
    /\ UNCHANGED <<archiveEtalonHash, actualFileHash, ripVersion>>

\* Line 304: pkgs = ripCMakePackage(cmakeUnpackedRoot, packagesRootsDir,
\* tgts[0].version, ...); every Package is created with version=version.
B_Rip ==
    /\ pc = "rip"
    /\ ripVersion' = tgts[1].version
    /\ LET e == ripCMakePackage(nodes, cmakeUnpackedRoot(selectedTarget.version))
       IN IF e # None THEN Fail(e) ELSE Goto("build")
    /\ Step("ripCMakePackage")
    /\ UNCHANGED <<tvars, vvars, pvars, uvars>>
    /\ UNCHANGED <<archiveEtalonHash, actualFileHash, rootVersion>>

\* Lines 306-307: pkg.build() for every package.
B_BuildPackages ==
    /\ pc = "build"
    /\ Goto("repo")
    /\ Step("build")
    /\ UNCHANGED <<tvars, vvars, pvars, uvars>>
    /\ UNCHANGED <<archiveEtalonHash, actualFileHash, rootVersion, ripVersion>>

\* Lines 309-312: the packages are added to the repository.
B_Repo ==
    /\ pc = "repo"
    /\ Goto("done")
    /\ Step("Repo")
    /\ UNCHANGED <<tvars, vvars, pvars, uvars>>
    /\ UNCHANGED <<archiveEtalonHash, actualFileHash, rootVersion, ripVersion>>

BNext ==
    \/ B_GetTargets \/ B_Max \/ B_Fetch \/ B_Verify \/ B_Parse \/ B_Lookup
    \/ B_Download \/ B_HashCheck \/ B_Unpack \/ B_DataDir \/ B_Rip
    \/ B_BuildPackages \/ B_Repo

SpecBuild == BInit /\ [][BNext]_vars

(***************************************************************************)
(* parseHashesFile applied to a manifest text.                             *)
(***************************************************************************)
PInit ==
    /\ pc = "parseHashesFile"
    /\ raised = None
    /\ hashesText \in Texts
    /\ parseOut = NoResult
    /\ TIdle
    /\ VIdle
    /\ UIdle
    /\ BIdle

P_Parse ==
    /\ pc = "parseHashesFile"
    /\ parseOut' = parseHashesFile(hashesText)
    /\ pc' = IF parseOut'.kind = "return" THEN "returned" ELSE "raised"
    /\ raised' = parseOut'.exc
    /\ UNCHANGED <<hashesText, tvars, vvars, uvars, bvars>>

PNext == P_Parse

SpecParse == PInit /\ [][PNext]_vars

(***************************************************************************)
(* unpack on a well-formed archive, one entry of the tar stream at a time. *)
(***************************************************************************)
UInit ==
    /\ pc = "unpack"
    /\ raised = None
    /\ nodes = InitialNodes
    /\ tarLen \in TarLens
    /\ tarPos = 0
    /\ unpackedSize = 0
    /\ pb = 0
    /\ nent = 0
    /\ last = NoLast
    /\ escapedSeen = FALSE
    /\ TIdle
    /\ VIdle
    /\ PIdle
    /\ BIdle

\* Lines 146-150: the declared size is read from the last 4 bytes.
U_ReadTrailer ==
    /\ pc = "unpack"
    /\ unpackedSize' = Trailer(tarLen)
    /\ pc' = "loop"
    /\ UNCHANGED <<raised, nodes, tarLen, tarPos, pb, nent, last, escapedSeen>>
    /\ UNCHANGED <<tvars, vvars, pvars, bvars>>

\* Lines 154-162: the next entry f of the archive.  No entry of Entries is
\* named as the target of a link of Entries, so the other members of the
\* archive do not matter to what extract does with f.
U_Entry ==
    /\ pc = "loop"
    /\ nent < MaxEntries
    /\ \E f \in Entries :
          /\ tarPos + EntryLen(f) + EndMarkerLen <= tarLen
          /\ LET u == UnpackEntry(nodes, f, <<f>>)
                 reach == Reaches(nodes, f)
             IN /\ nodes' = u.fs
                /\ pb' = pb + u.bytes
                /\ tarPos' = tarPos + EntryLen(f)
                /\ last' = [f |-> f, escaped |-> reach = "outside",
                             looped |-> reach = "loop",
                             outcome |-> u.outcome, loc |-> u.loc]
                /\ escapedSeen' = (escapedSeen \/ reach = "outside")
                /\ IF Continues(u.outcome)
                   THEN pc' = pc /\ raised' = raised
                   ELSE pc' = "raised" /\ raised' = u.outcome
    /\ nent' = nent + 1
    /\ UNCHANGED <<tarLen, unpackedSize>>
    /\ UNCHANGED <<tvars, vvars, pvars, bvars>>

\* The end marker of the tar stream is reached: unpack returns.
U_End ==
    /\ pc = "loop"
    /\ pc' = "done"
    /\ UNCHANGED <<raised, uvars, tvars, vvars, pvars, bvars>>

UNext == U_ReadTrailer \/ U_Entry \/ U_End

SpecUnpack == UInit /\ [][UNext]_vars

(***************************************************************************)
(* getTargets as a generator consumed by list(), then max(tgts).           *)
(***************************************************************************)
nonT == <<vvars, pvars, uvars, bvars>>

TInit ==
    /\ pc = "telemetry"
    /\ raised = None
    /\ hdr \in [Remaining : HeaderValues \ {"0"}, Limit : HeaderValues, Reset : HeaderValues \ {"0"}]
    /\ body \in {"error", "list"}
    /\ nrel = 0
    /\ cur = NoRelease
    /\ tgts = <<>>
    /\ selectedTarget = NoTarget
    /\ VIdle
    /\ PIdle
    /\ UIdle
    /\ BIdle

\* Lines 66-73: the request and the rate-limit report.
T_Telemetry ==
    /\ pc = "telemetry"
    /\ LET e == Telemetry(hdr)
       IN IF e = None
          THEN pc' = "json" /\ raised' = raised
          ELSE pc' = "raised" /\ raised' = e
    /\ UNCHANGED <<tvars, nonT>>

\* Lines 75-79: the body; an error payload raises Exception(t["message"]).
T_Json ==
    /\ pc = "json"
    /\ IF body = "error"
       THEN pc' = "raised" /\ raised' = "Exception"
       ELSE pc' = "loop" /\ raised' = raised
    /\ UNCHANGED <<tvars, nonT>>

\* Lines 82-110: one release record r of t, up to the yield ("yield") or to
\* the end of the iteration without one ("skip").
T_Release ==
    /\ pc = "loop"
    /\ nrel < MaxReleases
    /\ \E r \in ReleaseRecords :
          LET tg == ProcessRelease(r)
          IN /\ cur' = r
             /\ pc' = IF tg # NoTarget THEN "yield" ELSE "skip"
             /\ tgts' = IF tg # NoTarget THEN Append(tgts, tg) ELSE tgts
    /\ nrel' = nrel + 1
    /\ UNCHANGED <<raised, hdr, body, selectedTarget, nonT>>

\* list() asks for the next item: the loop goes on with the next record.
T_Resume ==
    /\ pc \in {"yield", "skip"}
    /\ pc' = "loop"
    /\ cur' = NoRelease
    /\ UNCHANGED <<raised, hdr, body, nrel, tgts, selectedTarget, nonT>>

\* The release list is exhausted: the generator returns, list() completes.
T_Exhausted ==
    /\ pc = "loop"
    /\ pc' = "max"
    /\ UNCHANGED <<raised, tvars, nonT>>

\* BuildDeb.py line 269: selectedTarget = max(tgts); ValueError on an empty list.
T_Max ==
    /\ pc = "max"
    /\ IF tgts = <<>>
       THEN pc' = "raised" /\ raised' = "ValueError" /\ selectedTarget' = selectedTarget
       ELSE pc' = "selected" /\ raised' = raised /\ selectedTarget' = Max(tgts)
    /\ UNCHANGED <<hdr, body, nrel, cur, tgts, nonT>>

TNext == T_Telemetry \/ T_Json \/ T_Release \/ T_Resume \/ T_Exhausted \/ T_Max

SpecTargets == TInit /\ [][TNext]_vars

(***************************************************************************)
(* Properties of getTargets and of the selection.                          *)
(***************************************************************************)

\* The assets of release r whose name the pattern of role ro matches.
Matching(r, ro) == { i \in 1..Len(r.assets) : RxMatch(ro, r.assets[i]) }

LastTarget == tgts[Len(tgts)]

\* C4: every yielded target has a files mapping whose key set is exactly the
\* set of requested roles, and a release in which some requested role has no
\* matching asset is not yielded.
C4_CompleteFiles ==
    /\ \A i \in 1..Len(tgts) :
          /\ DOMAIN tgts[i].files = Roles
          /\ Cardinality(DOMAIN tgts[i].files) = Cardinality(Roles)
    /\ (pc \in {"yield", "skip"} /\ \E ro \in Roles : Matching(cur, ro) = {})
          => pc = "skip"

\* A release with every role present has been yielded.
C4_Witness ==
    /\ pc = "yield"
    /\ \A ro \in Roles : Matching(cur, ro) # {}

\* C5 as stated: a yielded release has exactly one matching asset per role.
C5_ExactlyOne ==
    pc = "yield" => \A ro \in Roles : Cardinality(Matching(cur, ro)) = 1

\* C5 amended: a release is yielded exactly when its tag matches and every
\* role has at least one matching asset; the file kept for a role is the last
\* matching asset in the order of the release's asset list.
C5_AtLeastOneLastWins ==
    pc \in {"yield", "skip"} =>
        /\ pc = "yield" <=>
              /\ TagMatch(cur.tag_name) # None
              /\ \A ro \in Roles : Matching(cur, ro) # {}
        /\ pc = "yield" =>
              \A ro \in Roles :
                 \E i \in Matching(cur, ro) :
                    /\ \A j \in Matching(cur, ro) : j <= i
                    /\ LastTarget.files[ro].uri = cur.assets[i]

\* A release with two assets matching the same role has been yielded.
C5_Witness ==
    /\ pc = "yield"
    /\ \E ro \in Roles : Cardinality(Matching(cur, ro)) >= 2

\* C7: the selected target's (created, published) is greater than or equal
\* to that of every qualifying target, in lexicographic order: a greater
\* created wins whatever published is, and published decides between equal
\* created.  The bound is over the set of targets, so it is the same for
\* every order of the listing.
C7_SelectedIsLatest ==
    pc = "selected" =>
        /\ \E i \in 1..Len(tgts) : selectedTarget = tgts[i]
        /\ \A i \in 1..Len(tgts) :
              \/ selectedTarget.created > tgts[i].created
              \/ /\ selectedTarget.created = tgts[i].created
                 /\ selectedTarget.published >= tgts[i].published

\* The latest target is not the first listed, and has the smaller published.
C7_Witness ==
    /\ pc = "selected"
    /\ Len(tgts) >= 2
    /\ selectedTarget # tgts[1]
    /\ \E i \in 1..Len(tgts) : tgts[i].published > selectedTarget.published

\* C9 as stated: the rate-limit report never raises; the only error of
\* getTargets is the API's error payload.
C9_TelemetryNeverRaises ==
    raised \notin TelemetryErrors

(***************************************************************************)
(* Properties of verifyBlob.                                               *)
(***************************************************************************)

\* The key the caller names is not in the keyring.
KeyMissing(in) ==
    /\ in.keyFingerprint # None
    /\ \A k \in in.keyring : k.fpr # Upper(in.keyFingerprint)

\* The trusted set: every subkey fingerprint of the named primary key, or
\* the single named subkey fingerprint.
Trusted(in) ==
    IF in.keyFingerprint # None
    THEN UNION { k.subkeys : k \in { x \in in.keyring : x.fpr = Upper(in.keyFingerprint) } }
    ELSE IF in.subkeyFingerprint # None THEN {Upper(in.subkeyFingerprint)}
    ELSE {}

\* The fingerprints gpg reports as having signed the data.
Signers(in) ==
    IF in.gpg[1] = "raise" THEN {}
    ELSE { in.gpg[2][i] : i \in 1..Len(in.gpg[2]) }

\* C3: verifyBlob returns True exactly when the signers gpg reports
\* intersect the trusted set; in every other case (no signer, no trusted
\* fingerprint, the named key missing from the keyring, gpg raising) it
\* raises, and when gpg reported signers none of which is trusted the error
\* lists every one of them.
C3_VerifyIffTrustedSigner ==
    vOut.kind # "none" =>
        /\ vOut.kind \in {"return", "raise"}
        /\ vOut.kind = "return" <=> (Signers(vIn) \cap Trusted(vIn)) # {}
        /\ vOut.kind = "return" => vOut.value = TRUE
        /\ vOut.kind = "raise" => raised # None /\ pc = "raised"
        /\ (vIn.gpg[1] = "sigs" /\ ~KeyMissing(vIn) /\ vOut.kind = "raise") =>
              /\ vOut.exc = "Exception"
              /\ vOut.listed = vIn.gpg[2]

\* A lower-case subkey fingerprint was given and its upper-case form signed.
C3_Witness ==
    /\ vOut.kind = "return"
    /\ vIn.subkeyFingerprint = "b2"
    /\ vIn.keyFingerprint = None

(***************************************************************************)
(* Properties of parseHashesFile.                                          *)
(***************************************************************************)

\* The manifest text has a line that does not have exactly three fields.
HasMalformedLine(text) ==
    \E k \in 1..Len(Rows(text)) : Len(Rows(text)[k]) # 3

\* C6 as stated: parseHashesFile fails on every manifest text with a line
\* that does not have exactly three space-delimited fields, and parses a
\* well-formed manifest, with or without a final newline, without error.
C6_MalformedLineFails ==
    parseOut.kind # "none" =>
        (parseOut.kind = "raise" <=> HasMalformedLine(hashesText))

(***************************************************************************)
(* Properties of unpack.                                                   *)
(***************************************************************************)

\* C2: once unpack reaches an entry whose resolved destination is not below
\* the resolved extraction root, the run has ended with an error raised at
\* that entry: the entry is the last one read, it was neither extracted nor
\* skipped, nothing was written for it, and no entry was read after it.
\* Every place an entry was written to is below the extraction root.  This
\* holds for every archive, those whose symbolic links form a loop
\* included: an entry whose destination does not resolve for such a loop
\* ends the run as well, with RuntimeError, and nothing is written for it.
C2_EscapeAborts ==
    /\ escapedSeen =>
          /\ pc = "raised"
          /\ raised = "ValueError"
          /\ last.escaped
          /\ last.outcome \notin {"extracted", "skipped"}
          /\ last.loc = NoLoc
    /\ last.looped =>
          /\ pc = "raised"
          /\ raised = "RuntimeError"
          /\ last.outcome \notin {"extracted", "skipped"}
          /\ last.loc = NoLoc
    /\ last.loc # NoLoc => IsPrefix(extrDir, last.loc)
    /\ \A p \in DOMAIN nodes : p \in DOMAIN InitialNodes \/ IsPrefix(extrDir, p)

\* An entry below a symbolic link that is a loop was reached after the link
\* had been extracted, and an entry that leaves the root through the loop.
C2_LoopReached ==
    /\ last.looped
    /\ last.f.name = Rel(<<"l", "f">>)
    /\ IsLink(nodes, <<"x", "l">>)
    /\ nodes[<<"x", "l">>].target = Abs(<<"x", "l">>)

\* An entry below an extracted symbolic link that leaves the root was reached
\* after two entries had been extracted.
C2_Witness ==
    /\ escapedSeen
    /\ nent = 3
    /\ last.f.name = Rel(<<"l", "f">>)
    /\ IsLink(nodes, <<"x", "l">>)

\* C8 as stated: a complete run of unpack leaves the progress counter equal
\* to the size declared in the last 4 bytes of the archive.
C8_CountEqualsTrailer ==
    pc = "done" => pb = unpackedSize

(***************************************************************************)
(* Properties of doBuild.                                                  *)
(***************************************************************************)
Started(name) == \E k \in 1..Len(steps) : steps[k] = name

\* The position of a step among the steps started (0 when not started).
StepAt(name) ==
    IF Started(name) THEN CHOOSE k \in 1..Len(steps) : steps[k] = name ELSE 0

Before(a, b) == Started(a) /\ StepAt(a) < StepAt(b)

\* The rows of the manifest text that name the archive.
ArchiveRows ==
    { k \in 1..Len(Rows(hashesText)) :
         /\ Len(Rows(hashesText)[k]) >= 3
         /\ Rows(hashesText)[k][3] = <<"t">> }

\* The downloaded digest equals, letter case aside, the digest of a row of
\* the manifest that names the archive.
DigestInManifest ==
    \E k \in ArchiveRows : Lower(Rows(hashesText)[k][1]) = Lower(actualFileHash)

SignatureTrusted == (Signers(vIn) \cap Trusted(vIn)) # {}

LaterSteps == {"unpack", "findCMakeDataDir", "ripCMakePackage", "build", "Repo"}

\* C1: the trust chain runs in a fixed order and each step gates the next.
\* The manifest is parsed and the archive's entry looked up only after
\* verifyBlob has succeeded on the manifest and its signature; unpack starts
\* only after the digest of the downloaded archive has compared equal, case
\* aside, to the manifest's entry.  When verifyBlob fails, the entry is
\* missing or the digests differ, neither unpack nor any later step starts.
C1_TrustChainOrder ==
    /\ Started("parseHashesFile") =>
          /\ Before("verifyBlob", "parseHashesFile")
          /\ vOut.kind = "return"
          /\ SignatureTrusted
    /\ Started("lookup") => Before("parseHashesFile", "lookup")
    /\ Started("unpack") =>
          /\ Before("lookup", "download")
          /\ Before("download", "hashcheck")
          /\ Before("hashcheck", "unpack")
          /\ ArchiveRows # {}
          /\ DigestInManifest
    /\ \A l \in LaterSteps : Started(l) => Started("unpack")
    /\ (Started("verifyBlob") /\ ~SignatureTrusted) =>
          /\ ~Started("parseHashesFile")
          /\ \A l \in LaterSteps : ~Started(l)
    /\ (Started("lookup") /\ ArchiveRows = {}) => \A l \in LaterSteps : ~Started(l)
    /\ (Started("hashcheck") /\ ~DigestInManifest) => \A l \in LaterSteps : ~Started(l)

\* The repository was published after an upper-case manifest digest matched
\* the digest of the download.
C1_Witness ==
    /\ pc = "done"
    /\ Started("Repo")
    /\ hashesText[1] = "A"
    /\ actualFileHash = <<"a", "b">>

\* C10 as stated: the version given to ripCMakePackage is the version of the
\* selected target, whose archive was verified and unpacked.
C10_RipVersionIsSelected ==
    Started("ripCMakePackage") =>
        /\ ripVersion = selectedTarget.version
        /\ ripVersion = rootVersion

====
